---- MODULE Spec2Model ----
(***************************************************************************)
(* Model of the keeper scheduling ledger (fprasx/keeper).                  *)
(*                                                                         *)
(* Two binaries persist a Keeper: keeper-todo (keeper-todo/src/main.rs)    *)
(* and the older keeper (src/main.rs).  One behaviour follows one of them  *)
(* through successive process invocations on its own data file: each       *)
(* invocation loads the file, runs one parsed command, and (on the paths   *)
(* that reach it) writes the Keeper back; then the process is gone and     *)
(* only the file remains.                                                  *)
(*                                                                         *)
(* A Keeper is a BTreeMap date -> Schedule, a Schedule a BTreeMap          *)
(* hour -> Vec<Task>.  A BTreeMap is a function whose DOMAIN is its key    *)
(* set, so "key not present" and "present with an empty Vec" are distinct. *)
(* Vec indices are 0-based in the source and 1-based here: the task at     *)
(* source index i is slot[i + 1].                                          *)
(***************************************************************************)
EXTENDS Integers, Sequences, FiniteSets, TLC

\* ---------------------------------------------------------------- bounds
\* Dates are day numbers 1..MaxDate.
MaxDate == 2
\* Commands use the last NumHours hours of the day: (24 - NumHours)..23.
NumHours == 2
\* An add is accepted by the model only while the file holds fewer tasks.
MaxTasks == 2

Dates == 1..MaxDate
Hours == (24 - NumHours)..23
Descs == {"a", "b"}
\* Indices a command may name: inside a slot, at its length, and beyond the
\* length of every slot that is not full.
Indices == 0..MaxTasks

\* ------------------------------------------------------------- data model
Task == [completed : BOOLEAN, desc : Descs]

\* Keeper::default() / Schedule::default(): an empty BTreeMap.
EmptyMap == << >>

\* BTreeMap::insert / BTreeMap::remove.
MapPut(m, k, v) == [x \in (DOMAIN m) \cup {k} |-> IF x = k THEN v ELSE m[x]]
MapRemove(m, k) == [x \in (DOMAIN m) \ {k} |-> m[x]]

\* BTreeMap::entry(k).or_default(): the value at k, default if absent.
EntryOrDefault(m, k, default) == IF k \in DOMAIN m THEN m[k] ELSE default

\* Vec::remove(index) for index < len (0-based index).
VecRemove(s, index) == SubSeq(s, 1, index) \o SubSeq(s, index + 2, Len(s))

\* Task::new(desc)
TaskNew(desc) == [completed |-> FALSE, desc |-> desc]

\* Task::mark_complete
mark_complete(task) == [task EXCEPT !.completed = TRUE]

\* ------------------------------------------------------------ Keeper::order
\* sort_by_key(|task| task.completed) is a stable sort on the key
\* false < true.  It is modelled as the insertion sort the standard library
\* runs on short slices: an element moves left past strictly greater keys.

\* (The key order reversed: completed tasks sort first.)
KeyGreaterReversed(a, b) == ~a.completed /\ b.completed

\* The key of a is greater than the key of b: true > false.
KeyGreater(a, b) == a.completed /\ ~b.completed

\* An unstable insertion: the element also moves left past equal keys.
RECURSIVE InsertUnstable(_, _)
InsertUnstable(s, x) ==
    IF s = << >> \/ KeyGreater(x, s[Len(s)])
    THEN Append(s, x)
    ELSE Append(InsertUnstable(SubSeq(s, 1, Len(s) - 1), x), s[Len(s)])

RECURSIVE InsertSorted(_, _)
InsertSorted(s, x) ==
    IF s = << >> \/ ~KeyGreater(s[Len(s)], x)
    THEN Append(s, x)
    ELSE Append(InsertSorted(SubSeq(s, 1, Len(s) - 1), x), s[Len(s)])

RECURSIVE SortPrefix(_, _)
SortPrefix(s, n) ==
    IF n = 0 THEN << >> ELSE InsertSorted(SortPrefix(s, n - 1), s[n])

sort_by_key(slot) == SortPrefix(slot, Len(slot))

order(k) == [d \in DOMAIN k |-> [h \in DOMAIN k[d] |-> sort_by_key(k[d][h])]]

\* -------------------------------------------------------------- Keeper::add
\* A slot overwritten instead of extended: insert(hour, vec![task]).
add_overwrite(k, date, desc, hour) ==
    LET day == EntryOrDefault(k, date, EmptyMap)
    IN  MapPut(k, date, MapPut(day, hour, <<TaskNew(desc)>>))

add(k, date, desc, hour) ==
    LET day  == EntryOrDefault(k, date, EmptyMap)
        slot == EntryOrDefault(day, hour, << >>)
    IN  MapPut(k, date, MapPut(day, hour, Append(slot, TaskNew(desc))))

\* ------------------------------------------------------------- Keeper::mark
\* The day and the slot looked up with entry().or_default(): both are
\* created, empty, when they are absent.
mark_entry(k, date, hour, index) ==
    LET day  == EntryOrDefault(k, date, EmptyMap)
        slot == EntryOrDefault(day, hour, << >>)
    IN  MapPut(k, date, MapPut(day, hour,
            IF index < Len(slot)
            THEN [slot EXCEPT ![index + 1] = mark_complete(@)]
            ELSE slot))

\* An index clamped to the slot: a missing index marks the last task.
mark_clamped(k, date, hour, index) ==
    IF /\ date \in DOMAIN k
       /\ hour \in DOMAIN k[date]
       /\ k[date][hour] # << >>
    THEN LET i == IF index < Len(k[date][hour])
                  THEN index + 1 ELSE Len(k[date][hour])
         IN  [k EXCEPT ![date][hour][i] = mark_complete(@)]
    ELSE k

mark(k, date, hour, index) ==
    IF /\ date \in DOMAIN k
       /\ hour \in DOMAIN k[date]
       /\ index < Len(k[date][hour])
    THEN [k EXCEPT ![date][hour][index + 1] = mark_complete(@)]
    ELSE k

\* ----------------------------------------------------------- Keeper::change
\* The day and slot lookups chained as in mark: one error for both.
change_check_chained(k, date, old_hour, index) ==
    IF date \notin DOMAIN k \/ old_hour \notin DOMAIN k[date] THEN "absent slot"
    ELSE IF index > Len(k[date][old_hour]) THEN "index out of range"
    ELSE IF index >= Len(k[date][old_hour]) THEN "panic"
    ELSE "ok"

\* The three guards and the removal, in source order.  "panic" is
\* Vec::remove called with index = len.
change_check(k, date, old_hour, index) ==
    IF date \notin DOMAIN k THEN "absent day"
    ELSE IF old_hour \notin DOMAIN k[date] THEN "absent slot"
    ELSE IF index > Len(k[date][old_hour]) THEN "index out of range"
    ELSE IF index >= Len(k[date][old_hour]) THEN "panic"
    ELSE "ok"

\* The target slot replaced instead of extended: insert(new_hour, vec![task]).
change_overwrite(k, date, old_hour, index, new_hour) ==
    LET day     == k[date]
        task    == day[old_hour][index + 1]
        tasks   == VecRemove(day[old_hour], index)
        removed == IF tasks = << >>
                   THEN MapRemove(day, old_hour)
                   ELSE MapPut(day, old_hour, tasks)
    IN  MapPut(k, date, MapPut(removed, new_hour, <<task>>))

\* The emptied slot left in the Schedule: no delete-if-empty.
change_keep_empty(k, date, old_hour, index, new_hour) ==
    LET day     == k[date]
        task    == day[old_hour][index + 1]
        removed == MapPut(day, old_hour, VecRemove(day[old_hour], index))
        target  == EntryOrDefault(removed, new_hour, << >>)
    IN  MapPut(k, date, MapPut(removed, new_hour, Append(target, task)))

\* The task re-created from its description: Task::new(task.desc).
change_renew(k, date, old_hour, index, new_hour) ==
    LET day     == k[date]
        task    == TaskNew(day[old_hour][index + 1].desc)
        tasks   == VecRemove(day[old_hour], index)
        removed == IF tasks = << >>
                   THEN MapRemove(day, old_hour)
                   ELSE MapPut(day, old_hour, tasks)
        target  == EntryOrDefault(removed, new_hour, << >>)
    IN  MapPut(k, date, MapPut(removed, new_hour, Append(target, task)))

\* The store after remove / delete-if-empty / push, when change_check is ok.
change(k, date, old_hour, index, new_hour) ==
    LET day     == k[date]
        task    == day[old_hour][index + 1]
        tasks   == VecRemove(day[old_hour], index)
        removed == IF tasks = << >>
                   THEN MapRemove(day, old_hour)
                   ELSE MapPut(day, old_hour, tasks)
        target  == EntryOrDefault(removed, new_hour, << >>)
    IN  MapPut(k, date, MapPut(removed, new_hour, Append(target, task)))

\* ------------------------------------------------------------ local time
\* An instant of the local clock: a date, the second of the day and the
\* microsecond of the second.  The local calendar is taken without clock
\* changes, so every NaiveDateTime names exactly one instant.
Instant(date, secs, micros) == [date |-> date, secs |-> secs, micros |-> micros]

\* date.and_hms_opt(h, m, s)
and_hms(date, h, m, s) == Instant(date, h * 3600 + m * 60 + s, 0)

\* DateTime's `<`.
Before(a, b) ==
    \/ a.date < b.date
    \/ a.date = b.date /\ a.secs < b.secs
    \/ a.date = b.date /\ a.secs = b.secs /\ a.micros < b.micros

\* ShowSet::Date(date) / ShowSet::Days(days)
ShowDate(date) == [kind |-> "Date", date |-> date]
ShowDays(days) == [kind |-> "Days", days |-> days]

\* Local::now().date_naive().iter_days().take(days)
RECURSIVE iter_days(_, _)
iter_days(date, days) ==
    IF days = 0 THEN << >> ELSE <<date>> \o iter_days(date + 1, days - 1)

\* The dates a selection names, in the order both renderers walk them.
selected_days(sel, t) ==
    IF sel.kind = "Days" THEN iter_days(t.date, sel.days) ELSE <<sel.date>>

\* ------------------------------------------------------------- formatting
\* usize's Display.
Digit == <<"0", "1", "2", "3", "4", "5", "6", "7", "8", "9">>

RECURSIVE to_string(_)
to_string(n) ==
    IF n < 10 THEN Digit[n + 1]
    ELSE to_string(n \div 10) \o Digit[(n % 10) + 1]

\* date.format("%d %b %Y"): day number d is the d-th of January 2024.
format_date(date) ==
    (IF date < 10 THEN "0" ELSE "") \o to_string(date) \o " Jan 2024"

\* keys of a BTreeMap in iteration (ascending) order.
RECURSIVE keys_ascending(_)
keys_ascending(S) ==
    IF S = {} THEN << >>
    ELSE LET m == CHOOSE x \in S : \A y \in S : x <= y
         IN  <<m>> \o keys_ascending(S \ {m})

\* keeper_util::color
GREEN == "ESC[0;32m"
RED   == "ESC[0;31m"
BLUE  == "ESC[0;34m"
RESET == "ESC[0m"

\* The four escapes fmt_day writes, by ColorStyle.
palette(color) ==
    IF color = "NoColor"
    THEN [green |-> "", red |-> "", blue |-> "", reset |-> ""]
    ELSE [green |-> GREEN, red |-> RED, blue |-> BLUE, reset |-> RESET]

\* ------------------------------------------------- KeeperDisplay (text view)
\* (The comparison made non-strict: past due from h:59:59 on.)
past_due_inclusive(date, time, t) == ~Before(t, and_hms(date, time, 59, 59))

\* The hour-slot (date, time) has passed at instant t.
past_due(date, time, t) == Before(and_hms(date, time, 59, 59), t)

\* (A finished slot that is past due painted red.)
bracket_color_late(all_done, due, c) ==
    CASE all_done /\ due   -> c.red
      [] all_done /\ ~due  -> c.green
      [] ~all_done /\ due  -> c.red
      [] OTHER             -> c.blue

bracket_color(all_done, due, c) ==
    CASE all_done /\ due   -> c.green
      [] all_done /\ ~due  -> c.green
      [] ~all_done /\ due  -> c.red
      [] OTHER             -> c.blue

task_color(completed, due, c) ==
    CASE completed /\ due   -> c.green
      [] completed /\ ~due  -> c.green
      [] ~completed /\ due  -> c.red
      [] OTHER              -> c.reset

all_completed(tasklist) == \A i \in 1..Len(tasklist) : tasklist[i].completed

\* A text is the sequence of the strings written to the formatter; every
\* newline is a piece "\n" of its own.
RECURSIVE fmt_tasks(_, _, _)
fmt_tasks(tasklist, due, c) ==
    IF tasklist = << >> THEN << >>
    ELSE LET task  == Head(tasklist)
             color == task_color(task.completed, due, c)
         IN  <<" ", color, "(", c.reset, task.desc, color, ")", c.reset>>
             \o fmt_tasks(Tail(tasklist), due, c)

RECURSIVE fmt_slots(_, _, _, _, _)
fmt_slots(timeslots, times, date, t, c) ==
    IF times = << >> THEN << >>
    ELSE LET time     == Head(times)
             tasklist == timeslots[time]
             due      == past_due(date, time, t)
             bracket  == bracket_color(all_completed(tasklist), due, c)
         IN  <<bracket, "[", to_string(time), "]", c.reset>>
             \o fmt_tasks(tasklist, due, c)
             \o <<"\n">>
             \o fmt_slots(timeslots, Tail(times), date, t, c)

fmt_day(k, date, t, color) ==
    <<format_date(date), "\n">>
    \o IF date \notin DOMAIN k
       THEN <<"Empty", "\n">>
       ELSE fmt_slots(k[date], keys_ascending(DOMAIN k[date]), date, t,
                      palette(color))

RECURSIVE fmt_rest(_, _, _, _)
fmt_rest(k, days, t, color) ==
    IF days = << >> THEN << >>
    ELSE <<"\n">> \o fmt_day(k, Head(days), t, color)
         \o fmt_rest(k, Tail(days), t, color)

\* (No early return for zero days: today is written in any case.)
fmt_no_early_return(k, sel, t, color) ==
    IF sel.kind = "Days"
    THEN LET days == iter_days(t.date, sel.days)
         IN  fmt_day(k, t.date, t, color)
             \o (IF days = << >> THEN << >> ELSE fmt_rest(k, Tail(days), t, color))
    ELSE fmt_day(k, sel.date, t, color)

\* (A separator written after every day: a trailing blank line.)
fmt_trailing(k, sel, t, color) ==
    IF sel.kind = "Days"
    THEN LET days == iter_days(t.date, sel.days)
         IN  IF days = << >> THEN << >>
             ELSE fmt_day(k, Head(days), t, color)
                  \o fmt_rest(k, Tail(days), t, color) \o <<"\n">>
    ELSE fmt_day(k, sel.date, t, color)

\* impl Display for KeeperDisplay
fmt(k, sel, t, color) ==
    IF sel.kind = "Days"
    THEN LET days == iter_days(t.date, sel.days)
         IN  IF days = << >> THEN << >>
             ELSE fmt_day(k, Head(days), t, color)
                  \o fmt_rest(k, Tail(days), t, color)
    ELSE fmt_day(k, sel.date, t, color)

\* str::lines: the text split at its newlines, without a final empty line.
RECURSIVE split_lines(_, _)
split_lines(text, line) ==
    IF text = << >> THEN (IF line = "" THEN << >> ELSE <<line>>)
    ELSE IF Head(text) = "\n" THEN <<line>> \o split_lines(Tail(text), "")
    ELSE split_lines(Tail(text), line \o Head(text))

lines(text) == split_lines(text, "")

\* ----------------------------------------------- KeeperRenderer (image view)
SCREEN_HEIGHT == 956
SCREEN_WIDTH == 1470
Y_START == 35
Y_PAD == 20
X_PAD == 35
\* 1.9 as the fraction 19 / 10.
CHAR_HEIGHT_TO_WIDTH == <<19, 10>>

NORD_GREEN == "a3be8c"
NORD_RED   == "bf616a"
NORD_WHITE == "d8dee9"
NORD_BLUE  == "81a1c1"

\* f32 values are kept as exact fractions <<numerator, denominator>>.
rat_div(a, b) == <<a[1] * b[2], a[2] * b[1]>>
rat_le(a, b) == a[1] * b[2] <= b[1] * a[2]
rat_eq(a, b) == a[1] * b[2] = b[1] * a[2]
\* f32::min
rat_min(a, b) == IF rat_le(a, b) THEN a ELSE b

RECURSIVE longest(_)
longest(ls) ==
    IF ls = << >> THEN 0
    ELSE LET rest == longest(Tail(ls))
         IN  IF Len(Head(ls)) >= rest THEN Len(Head(ls)) ELSE rest

effective_height == SCREEN_HEIGHT - 2 * Y_PAD - Y_START
effective_width == SCREEN_WIDTH - 2 * X_PAD - 20

\* (The height alone deciding the size: the width never limits it.)
font_size_by_height(text) ==
    rat_div(<<effective_height, 1>>, <<Len(lines(text)), 1>>)

\* `size` of KeeperRenderer::new, for a text with at least one line.
font_size(text) ==
    LET height == <<Len(lines(text)), 1>>
        width  == rat_div(<<longest(lines(text)), 1>>, CHAR_HEIGHT_TO_WIDTH)
    IN  rat_min(rat_div(<<effective_height, 1>>, height),
                rat_div(<<effective_width, 1>>, width))

\* KeeperRenderer::new after the expect.  The cursor is kept in glyph cells
\* of the monospaced font: xpos = X_PAD + the width of `col` glyphs,
\* ypos = Y_PAD + Y_START + `row` line heights.  `image` is the list of runs
\* drawn, each with the cell it starts at.
new(sel, text) ==
    [selection |-> sel,
     scale     |-> [x |-> font_size(text), y |-> font_size(text)],
     col       |-> 0,
     row       |-> 0,
     image     |-> << >>]

render_literal(r, color, literal) ==
    [r EXCEPT !.image = Append(@, [color |-> color, literal |-> literal,
                                   col |-> r.col, row |-> r.row]),
              !.col = r.col + Len(literal)]

render_newline(r) == [r EXCEPT !.col = 0, !.row = r.row + 1]

\* The second past_due of the source, in render_day.
render_past_due(date, time, t) == Before(and_hms(date, time, 59, 59), t)

\* (An unfinished slot painted red whether or not it is past due.)
render_bracket_color_eager(all_done, due) ==
    CASE all_done /\ due   -> NORD_GREEN
      [] all_done /\ ~due  -> NORD_GREEN
      [] ~all_done /\ due  -> NORD_RED
      [] OTHER             -> NORD_RED

render_bracket_color(all_done, due) ==
    CASE all_done /\ due   -> NORD_GREEN
      [] all_done /\ ~due  -> NORD_GREEN
      [] ~all_done /\ due  -> NORD_RED
      [] OTHER             -> NORD_BLUE

paren_color(completed, due) ==
    CASE completed /\ due   -> NORD_GREEN
      [] completed /\ ~due  -> NORD_GREEN
      [] ~completed /\ due  -> NORD_RED
      [] OTHER              -> NORD_WHITE

RECURSIVE render_tasks(_, _, _)
render_tasks(r, tasklist, due) ==
    IF tasklist = << >> THEN r
    ELSE LET task  == Head(tasklist)
             color == paren_color(task.completed, due)
             r1    == render_literal(r, color, " (")
             r2    == render_literal(r1, NORD_WHITE, task.desc)
             r3    == render_literal(r2, color, ")")
         IN  render_tasks(r3, Tail(tasklist), due)

RECURSIVE render_slots(_, _, _, _, _)
render_slots(r, timeslots, times, day, t) ==
    IF times = << >> THEN r
    ELSE LET time     == Head(times)
             tasklist == timeslots[time]
             due      == render_past_due(day, time, t)
             bracket  == render_bracket_color(all_completed(tasklist), due)
             r1       == render_literal(r, bracket, "[" \o to_string(time) \o "]")
             r2       == render_tasks(r1, tasklist, due)
         IN  render_slots(render_newline(r2), timeslots, Tail(times), day, t)

render_day(r, k, day, t) ==
    LET r1 == render_newline(render_literal(r, NORD_WHITE, format_date(day)))
    IN  IF day \notin DOMAIN k
        THEN render_literal(r1, NORD_WHITE, "Empty")
        ELSE render_slots(r1, k[day], keys_ascending(DOMAIN k[day]), day, t)

RECURSIVE render_days(_, _, _, _)
render_days(r, k, days, t) ==
    IF days = << >> THEN r
    ELSE render_days(render_day(r, k, Head(days), t), k, Tail(days), t)

\* KeeperRenderer::render
render(r, k, t) == render_days(r, k, selected_days(r.selection, t), t)

\* ------------------------------------------------------------------ state
VARIABLES
    bin,       \* which binary this behaviour runs: "keeper-todo" or "keeper"
    file,      \* the Keeper stored in the binary's data.ron
    keeper,    \* main's `keeper`, loaded from the file
    command,   \* main's `command`, as parsed
    pc,        \* where the current process is / how the last one ended
    err,       \* the error the process reported
    orders,    \* calls of Keeper::order in this process
    commits    \* calls of commit_data in this process

\* The views of one show / render command (used by SpecRender only).
VARIABLES
    now,       \* Local::now() during the command
    selection, \* the command's ShowSet
    printed,   \* what Keeper::show printed
    displayed, \* KeeperRenderer::new's `displayed`: the plain-text rendering
    renderer,  \* the KeeperRenderer: scale, cursor, and the runs drawn
    rpc        \* where the show / render command is

rvars == <<now, selection, printed, displayed, renderer, rpc>>

vars == <<bin, file, keeper, command, pc, err, orders, commits, rvars>>

\* No show or render command is under way.
NoView ==
    /\ now = "none"
    /\ selection = "none"
    /\ printed = << >>
    /\ displayed = << >>
    /\ renderer = "none"
    /\ rpc = "idle"

\* No process is running: a new invocation may start.
NotRunning == pc = "idle"

\* The process has ended: main returned, or exit / a panic ended it.
Ended == pc \in {"done", "failed", "exited", "panicked"}

\* All tasks of a Keeper, by position.
TaskPositions(k) ==
    UNION {UNION {{<<d, h, i>> : i \in 1..Len(k[d][h])} : h \in DOMAIN k[d]}
           : d \in DOMAIN k}

TotalTasks(k) == Cardinality(TaskPositions(k))

Init ==
    /\ bin \in {"keeper-todo", "keeper"}
    /\ file = EmptyMap
    /\ keeper = EmptyMap
    /\ command = [op |-> "none"]
    /\ pc = "idle"
    /\ err = "none"
    /\ orders = 0
    /\ commits = 0
    /\ NoView

\* load_data, Command::parse and the position after the command's match arm.
\* ok is the result of the wallpaper render the command triggers: the `?` in
\* main returns the error before order and commit_data.
Started(cmd, k, ok) ==
    /\ keeper' = k
    /\ command' = cmd
    /\ pc' = IF ok THEN "mutated" ELSE "failed"
    /\ err' = IF ok THEN "none" ELSE "render"
    /\ orders' = 0
    /\ commits' = 0
    /\ UNCHANGED <<bin, file, rvars>>

\* fatal!: print the error and process::exit(1).
Fatal(cmd, e) ==
    /\ keeper' = file
    /\ command' = cmd
    /\ pc' = "exited"
    /\ err' = e
    /\ orders' = 0
    /\ commits' = 0
    /\ UNCHANGED <<bin, file, rvars>>

\* A panic unwinds main: the process aborts.
Panic(cmd) ==
    /\ keeper' = file
    /\ command' = cmd
    /\ pc' = "panicked"
    /\ err' = "panic"
    /\ orders' = 0
    /\ commits' = 0
    /\ UNCHANGED <<bin, file, rvars>>

\* ------------------------------------------------------------ Command::parse
\* The hours a command line may name: those of Hours, and 24, the first
\* number that is not an hour of the day.
CliHours == Hours \cup {24}

\* (The range check made inclusive: 24 accepted as an hour.)
hour_in_range_inclusive(hour) == hour \in 0..24

\* (0..24).contains(&hour)
hour_in_range(hour) == hour \in 0..23

\* fatal! inside Command::parse: no Command is built; the Keeper was loaded
\* before and is left as loaded.  The wallpaper render is never reached, so
\* its result is not drawn twice.
Rejected(e, ok) == ok /\ Fatal([op |-> "none"], e)

\* ------------------------------------------------- keeper-todo: main's arms
Add(date, hour, desc, ok) ==
    /\ bin = "keeper-todo"
    /\ NotRunning
    /\ TotalTasks(file) < MaxTasks
    /\ IF ~hour_in_range(hour) THEN Rejected("hour", ok)
       ELSE Started([op |-> "add", date |-> date, hour |-> hour, desc |-> desc],
                    add(file, date, desc, hour), ok)

Mark(date, hour, index, ok) ==
    /\ bin = "keeper-todo"
    /\ NotRunning
    /\ IF ~hour_in_range(hour) THEN Rejected("hour", ok)
       ELSE Started([op |-> "mark", date |-> date, hour |-> hour, index |-> index],
                    mark(file, date, hour, index), ok)

Change(date, old_hour, index, new_hour, ok) ==
    LET cmd == [op |-> "change", date |-> date, old_hour |-> old_hour,
                index |-> index, new_hour |-> new_hour]
        res == change_check(file, date, old_hour, index)
    IN  /\ bin = "keeper-todo"
        /\ NotRunning
        /\ CASE ~hour_in_range(old_hour) -> Rejected("hour", ok)
             [] hour_in_range(old_hour) /\ ~hour_in_range(new_hour) -> Rejected("new-hour", ok)
             [] OTHER ->
                CASE res = "ok"    -> Started(cmd, change(file, date, old_hour, index, new_hour), ok)
                  [] res = "panic" -> ok /\ Panic(cmd)
                  [] OTHER         -> ok /\ Fatal(cmd, res)

Show ==
    /\ bin = "keeper-todo"
    /\ NotRunning
    /\ Started([op |-> "show"], file, TRUE)

Render(ok) ==
    /\ bin = "keeper-todo"
    /\ NotRunning
    /\ Started([op |-> "render"], file, ok)

Order ==
    /\ bin = "keeper-todo"
    /\ pc = "mutated"
    /\ keeper' = order(keeper)
    /\ orders' = orders + 1
    /\ pc' = "ordered"
    /\ UNCHANGED <<bin, file, command, err, commits, rvars>>

Commit ==
    /\ bin = "keeper-todo"
    /\ pc = "ordered"
    /\ file' = keeper
    /\ commits' = commits + 1
    /\ pc' = "done"
    /\ UNCHANGED <<bin, keeper, command, err, orders, rvars>>

\* The ended process is gone: only the file outlives it.
Exit ==
    /\ Ended
    /\ pc' = "idle"
    /\ keeper' = EmptyMap
    /\ command' = [op |-> "none"]
    /\ err' = "none"
    /\ orders' = 0
    /\ commits' = 0
    /\ UNCHANGED <<bin, file, rvars>>

\* ------------------------------------------------------ keeper: main's arms
KeeperAdd(date, hour, desc) ==
    /\ bin = "keeper"
    /\ NotRunning
    /\ TotalTasks(file) < MaxTasks
    /\ IF ~hour_in_range(hour) THEN Rejected("hour", TRUE)
       ELSE Started([op |-> "add", date |-> date, hour |-> hour, desc |-> desc],
                    add(file, date, desc, hour), TRUE)

KeeperMark(date, hour, index) ==
    /\ bin = "keeper"
    /\ NotRunning
    /\ IF ~hour_in_range(hour) THEN Rejected("hour", TRUE)
       ELSE Started([op |-> "mark", date |-> date, hour |-> hour, index |-> index],
                    mark(file, date, hour, index), TRUE)

KeeperShow ==
    /\ bin = "keeper"
    /\ NotRunning
    /\ Started([op |-> "show"], file, TRUE)

KeeperCommit ==
    /\ bin = "keeper"
    /\ pc = "mutated"
    /\ file' = keeper
    /\ commits' = commits + 1
    /\ pc' = "done"
    /\ UNCHANGED <<bin, keeper, command, err, orders, rvars>>

\* A command starts only when no process is running; the commands of the
\* two binaries are tried in that case alone.
Next ==
    \/ /\ NotRunning
       /\ \E date \in Dates, hour \in CliHours, desc \in Descs, ok \in BOOLEAN :
             Add(date, hour, desc, ok)
    \/ /\ NotRunning
       /\ \E date \in Dates, hour \in CliHours, index \in Indices, ok \in BOOLEAN :
             Mark(date, hour, index, ok)
    \/ /\ NotRunning
       /\ \E date \in Dates, old_hour \in CliHours, index \in Indices,
             new_hour \in CliHours, ok \in BOOLEAN :
             Change(date, old_hour, index, new_hour, ok)
    \/ Show
    \/ \E ok \in BOOLEAN : Render(ok)
    \/ Order
    \/ Commit
    \/ /\ NotRunning
       /\ \E date \in Dates, hour \in CliHours, desc \in Descs :
             KeeperAdd(date, hour, desc)
    \/ /\ NotRunning
       /\ \E date \in Dates, hour \in CliHours, index \in Indices :
             KeeperMark(date, hour, index)
    \/ KeeperShow
    \/ KeeperCommit
    \/ Exit

Spec == Init /\ [][Next]_vars

\* --------------------------------------------------- the views (SpecRender)
\* The instants a command may run at: one second before, at, and one
\* microsecond after 23:59:59 of date 1.  Date 1 is "today".
Nows == {Instant(1, 23 * 3600 + 59 * 60 + 58, 0),
         Instant(1, 23 * 3600 + 59 * 60 + 59, 0),
         Instant(1, 23 * 3600 + 59 * 60 + 59, 1)}

\* The selections a show / render command may name: a date, or a count of
\* days from 0 on.
Selections == {ShowDate(d) : d \in Dates} \cup {ShowDays(n) : n \in 0..MaxDate}

InitRender ==
    /\ bin = "keeper-todo"
    /\ file = EmptyMap
    /\ keeper = EmptyMap
    /\ command = [op |-> "none"]
    /\ pc = "idle"
    /\ err = "none"
    /\ orders = 0
    /\ commits = 0
    /\ NoView

\* An earlier invocation of add, from load_data to commit_data.
PriorAdd(date, hour, desc) ==
    /\ rpc = "idle"
    /\ TotalTasks(file) < MaxTasks
    /\ file' = order(add(file, date, desc, hour))
    /\ UNCHANGED <<bin, keeper, command, pc, err, orders, commits, rvars>>

\* An earlier invocation of mark, from load_data to commit_data.
PriorMark(date, hour, index) ==
    /\ rpc = "idle"
    /\ file' = order(mark(file, date, hour, index))
    /\ UNCHANGED <<bin, keeper, command, pc, err, orders, commits, rvars>>

\* Command::Show: Keeper::show prints the colored text.
ShowText(sel, t) ==
    /\ rpc = "idle"
    /\ keeper' = file
    /\ now' = t
    /\ selection' = sel
    /\ printed' = fmt(file, sel, t, "Color")
    /\ rpc' = "shown"
    /\ UNCHANGED <<bin, file, command, pc, err, orders, commits,
                   displayed, renderer>>

\* Keeper::render up to KeeperRenderer::new: the plain text is measured and
\* the scale chosen; max() of no lines fails the expect.
RendererNew(sel, t) ==
    LET text == fmt(file, sel, t, "NoColor")
    IN  /\ rpc = "idle"
        /\ keeper' = file
        /\ now' = t
        /\ selection' = sel
        /\ displayed' = text
        /\ IF lines(text) = << >>
           THEN /\ rpc' = "panicked"
                /\ renderer' = "none"
           ELSE /\ rpc' = "constructed"
                /\ renderer' = new(sel, text)
        /\ UNCHANGED <<bin, file, command, pc, err, orders, commits, printed>>

\* renderer.render()
RendererRender ==
    /\ rpc = "constructed"
    /\ renderer' = render(renderer, keeper, now)
    /\ rpc' = "rendered"
    /\ UNCHANGED <<bin, file, keeper, command, pc, err, orders, commits,
                   now, selection, printed, displayed>>

\* The command is over: its process is gone.
ViewDone ==
    /\ rpc \in {"shown", "rendered", "panicked"}
    /\ keeper' = EmptyMap
    /\ now' = "none"
    /\ selection' = "none"
    /\ printed' = << >>
    /\ displayed' = << >>
    /\ renderer' = "none"
    /\ rpc' = "idle"
    /\ UNCHANGED <<bin, file, command, pc, err, orders, commits>>

NextRender ==
    \/ \E date \in Dates, hour \in Hours, desc \in Descs :
          PriorAdd(date, hour, desc)
    \/ \E date \in Dates, hour \in Hours, index \in Indices :
          PriorMark(date, hour, index)
    \/ \E sel \in Selections, t \in Nows : ShowText(sel, t)
    \/ \E sel \in Selections, t \in Nows : RendererNew(sel, t)
    \/ RendererRender
    \/ ViewDone

SpecRender == InitRender /\ [][NextRender]_vars

\* ------------------------------------------------------------ vocabulary
\* The process is just past its command's match arm (or ended inside it):
\* `file` still holds the Keeper that was loaded.
AfterCommand == pc \in {"mutated", "failed", "exited", "panicked"}

\* The command's Store mutation was carried out in memory.
Mutated == pc \in {"mutated", "failed"}

IsDone(t) == t.completed
NotDone(t) == ~t.completed

\* Completion ordering of one slot and of a Keeper.
SlotOrdered(s) ==
    \A i \in 1..Len(s), j \in 1..Len(s) :
        i < j => ~(s[i].completed /\ ~s[j].completed)

Ordered(k) == \A d \in DOMAIN k : \A h \in DOMAIN k[d] : SlotOrdered(k[d][h])

\* Same dates, same slots, same slot lengths.
SameShape(k1, k2) ==
    /\ DOMAIN k1 = DOMAIN k2
    /\ \A d \in DOMAIN k1 :
          /\ DOMAIN k1[d] = DOMAIN k2[d]
          /\ \A h \in DOMAIN k1[d] : Len(k1[d][h]) = Len(k2[d][h])

\* Every task of k1 is at the same position of k2, unchanged.
Preserved(k1, k2) ==
    \A p \in TaskPositions(k1) :
        /\ p[1] \in DOMAIN k2
        /\ p[2] \in DOMAIN k2[p[1]]
        /\ p[3] <= Len(k2[p[1]][p[2]])
        /\ k2[p[1]][p[2]][p[3]] = k1[p[1]][p[2]][p[3]]

\* The source slot of the current change command exists in the loaded file.
MoveSourceExists ==
    /\ command.op = "change"
    /\ command.date \in DOMAIN file
    /\ command.old_hour \in DOMAIN file[command.date]

\* ----------------------------------------------------------------- claims

\* C1 (as stated): a move whose day and source slot exist either addresses
\* an existing task (index < slot length) and is performed, or fails with
\* the "index out of range" error leaving the Store unchanged; the removal
\* is never reached with index = slot length.
C1_MoveIndexChecked ==
    (AfterCommand /\ MoveSourceExists) =>
        \/ /\ command.index < Len(file[command.date][command.old_hour])
           /\ Mutated
        \/ /\ command.index >= Len(file[command.date][command.old_hour])
           /\ pc = "exited"
           /\ err = "index out of range"
           /\ keeper = file

\* C2: a move whose day is absent fails with "absent day", one whose day
\* exists but whose source slot is absent fails with "absent slot"; in both
\* cases the process exits with the in-memory Store equal to what was
\* loaded, the file untouched and commit_data never called.
C2_AbsentSourceFails ==
    [][ (/\ NotRunning
         /\ command'.op = "change"
         /\ \/ command'.date \notin DOMAIN file
            \/ command'.old_hour \notin DOMAIN file[command'.date])
        => (/\ pc' = "exited"
            /\ err' = (IF command'.date \notin DOMAIN file
                       THEN "absent day" ELSE "absent slot")
            /\ keeper' = file
            /\ file' = file
            /\ commits' = 0) ]_vars

C2_Witness ==
    /\ pc = "exited"
    /\ err = "absent slot"
    /\ command.op = "change"
    /\ command.date \in DOMAIN file
    /\ command.old_hour \notin DOMAIN file[command.date]
    /\ commits = 0

\* C3 (as stated): after a successful move that takes the only task of the
\* source slot, old_hour is not a key of the date's Schedule, for every
\* new_hour including new_hour = old_hour.
C3_EmptiedSlotAbsent ==
    (/\ pc \in {"mutated", "failed", "ordered"}
     /\ MoveSourceExists
     /\ Len(file[command.date][command.old_hour]) = 1)
    => command.old_hour \notin DOMAIN keeper[command.date]

\* C3 (amended): after a successful move that takes the only task of the
\* source slot, old_hour is not a key of the date's Schedule when
\* new_hour # old_hour; when new_hour = old_hour the slot is present and
\* holds exactly the moved task.  No slot of the Schedule is left empty.
C3_EmptiedSlotAbsentUnlessTarget ==
    (/\ pc \in {"mutated", "failed", "ordered"}
     /\ MoveSourceExists
     /\ Len(file[command.date][command.old_hour]) = 1)
    => /\ IF command.new_hour # command.old_hour
          THEN command.old_hour \notin DOMAIN keeper[command.date]
          ELSE /\ command.old_hour \in DOMAIN keeper[command.date]
               /\ keeper[command.date][command.old_hour]
                    = file[command.date][command.old_hour]
       /\ \A h \in DOMAIN keeper[command.date] :
             keeper[command.date][h] # << >>

C3_Witness ==
    /\ pc = "mutated"
    /\ MoveSourceExists
    /\ Len(file[command.date][command.old_hour]) = 1
    /\ command.new_hour # command.old_hour
    /\ command.old_hour \notin DOMAIN keeper[command.date]
    /\ command.new_hour \in DOMAIN file[command.date]

\* C4: right after a successful move the task that was at position index of
\* the old_hour slot is the last element of the new_hour slot of the same
\* date, with the same completed flag and description; the new_hour slot
\* exists afterwards whether or not it existed before, and is one longer
\* than before (as long as before when new_hour = old_hour).
C4_MovedTaskLast ==
    (Mutated /\ MoveSourceExists) =>
        LET day    == file[command.date]
            task   == day[command.old_hour][command.index + 1]
            before == IF command.new_hour \in DOMAIN day
                      THEN Len(day[command.new_hour]) ELSE 0
        IN  /\ command.date \in DOMAIN keeper
            /\ command.new_hour \in DOMAIN keeper[command.date]
            /\ LET slot == keeper[command.date][command.new_hour]
               IN  /\ slot # << >>
                   /\ slot[Len(slot)].completed = task.completed
                   /\ slot[Len(slot)].desc = task.desc
                   /\ Len(slot) = IF command.new_hour = command.old_hour
                                  THEN before ELSE before + 1

\* A completed task moved into a slot that did not exist.
C4_Witness ==
    /\ pc = "mutated"
    /\ MoveSourceExists
    /\ command.new_hour \notin DOMAIN file[command.date]
    /\ file[command.date][command.old_hour][command.index + 1].completed
    /\ keeper[command.date][command.new_hour]
         = <<file[command.date][command.old_hour][command.index + 1]>>

\* C5: add appends exactly one task, incomplete and with the given
\* description, at the end of the slot (date, hour), creating the Schedule
\* and the slot if absent; every task that was in the Store keeps its
\* position, flag and description; the mutation never fails (the process is
\* never ended by fatal! or a panic inside add).
C5_AddAppends ==
    (AfterCommand /\ command.op = "add") =>
        LET old == IF /\ command.date \in DOMAIN file
                      /\ command.hour \in DOMAIN file[command.date]
                   THEN file[command.date][command.hour] ELSE << >>
        IN  /\ Mutated
            /\ command.date \in DOMAIN keeper
            /\ command.hour \in DOMAIN keeper[command.date]
            /\ keeper[command.date][command.hour]
                 = Append(old, [completed |-> FALSE, desc |-> command.desc])
            /\ Preserved(file, keeper)
            /\ TotalTasks(keeper) = TotalTasks(file) + 1

\* An add into a slot that already holds a task.
C5_Witness ==
    /\ pc = "mutated"
    /\ command.op = "add"
    /\ command.date \in DOMAIN file
    /\ command.hour \in DOMAIN file[command.date]
    /\ Len(keeper[command.date][command.hour]) = 2

\* C6: mark sets the completed flag of the task at exactly (date, hour,
\* index) and changes nothing else; if the date, the slot or the index does
\* not exist the Store is identical before and after and no error is raised
\* for it: the process is not ended by fatal! or a panic, and the only error
\* it can report is that of the wallpaper render.
C6_MarkExactOrNoop ==
    (AfterCommand /\ command.op = "mark") =>
        LET exists == /\ command.date \in DOMAIN file
                      /\ command.hour \in DOMAIN file[command.date]
                      /\ command.index < Len(file[command.date][command.hour])
            target == <<command.date, command.hour, command.index + 1>>
        IN  /\ Mutated
            /\ err = (IF pc = "failed" THEN "render" ELSE "none")
            /\ SameShape(file, keeper)
            /\ \A p \in TaskPositions(file) :
                  LET was == file[p[1]][p[2]][p[3]]
                      is  == keeper[p[1]][p[2]][p[3]]
                  IN  /\ is.desc = was.desc
                      /\ is.completed = (was.completed \/ (exists /\ p = target))
            /\ ~exists => keeper = file

\* A mark of an index one past the end of an existing slot with an
\* incomplete task: nothing changed, no error.
C6_Witness ==
    /\ pc = "mutated"
    /\ command.op = "mark"
    /\ command.date \in DOMAIN file
    /\ command.hour \in DOMAIN file[command.date]
    /\ command.index = Len(file[command.date][command.hour])
    /\ \E i \in 1..Len(file[command.date][command.hour]) :
          ~file[command.date][command.hour][i].completed
    /\ keeper = file
    /\ err = "none"

\* C7 (as stated): every Keeper written to the backing file satisfies the
\* completion ordering, in each binary: no persisted slot has a completed
\* task before an incomplete one.
C7_PersistedOrdered == Ordered(file)

\* C8: across Keeper::order, every slot ends with its completed flags in
\* non-decreasing order, the incomplete tasks keep their relative order, the
\* completed tasks keep theirs, and no date, slot or task is added, removed
\* or changed.
C8_OrderStableSort ==
    [][ (pc = "mutated" /\ pc' = "ordered") =>
          /\ SameShape(keeper, keeper')
          /\ \A d \in DOMAIN keeper : \A h \in DOMAIN keeper[d] :
                LET s == keeper[d][h]
                    t == keeper'[d][h]
                IN  /\ \A i \in 1..(Len(t) - 1) :
                          t[i].completed => t[i + 1].completed
                    /\ SelectSeq(t, NotDone) = SelectSeq(s, NotDone)
                    /\ SelectSeq(t, IsDone) = SelectSeq(s, IsDone) ]_vars

\* Keeper::order moved the task just marked behind an incomplete one.
C8_Witness ==
    /\ pc = "ordered"
    /\ command.op = "mark"
    /\ keeper # mark(file, command.date, command.hour, command.index)
    /\ Ordered(keeper)

\* C9: Keeper::order is idempotent on every Keeper the program holds:
\* ordering the ordered Keeper again changes nothing.
C9_OrderIdempotent == order(order(keeper)) = order(keeper)

\* A Keeper in memory on which Keeper::order is not the identity.
C9_Witness ==
    /\ pc = "mutated"
    /\ order(keeper) # keeper

\* C10 (as stated): an invocation of add, mark or a successful move that has
\* ended has persisted the mutated, normalized Keeper exactly once, also
\* when the wallpaper render it triggers failed.
C10_MutationPersisted ==
    (/\ bin = "keeper-todo"
     /\ pc \in {"done", "failed"}
     /\ command.op \in {"add", "mark", "change"})
    => (commits = 1 /\ file = keeper /\ Ordered(file))

\* ------------------------------------------------- vocabulary of the views
SetMax(S) == CHOOSE x \in S : \A y \in S : y <= x

\* The lines of the image that hold at least one run.
ImageRows(img) == {img[i].row : i \in 1..Len(img)}

\* The number of glyph cells the runs of a line of the image reach.
RowLength(img, row) ==
    SetMax({img[i].col + Len(img[i].literal) : i \in {j \in 1..Len(img) : img[j].row = row}})

\* The run is a date header.
IsHeader(run) == \E d \in Dates : run.literal = format_date(d)

\* C11 (as stated): constructing the image renderer and drawing complete
\* without a panic for every Store and every selection, the next 0 days
\* included.
C11_RenderTotal == rpc # "panicked"

\* C12 (as stated): the image has at most as many lines as the plain text
\* that was measured, and no line of the image is longer than the longest
\* line of that plain text.
C12_RenderingFits ==
    rpc = "rendered" =>
        /\ Cardinality(ImageRows(renderer.image)) <= Len(lines(displayed))
        /\ \A row \in ImageRows(renderer.image) :
              RowLength(renderer.image, row) <= longest(lines(displayed))

\* C13 (as stated): every date header the image renderer draws starts at the
\* left padding position, on a line that holds nothing else.
C13_HeaderAtLeftPad ==
    rpc = "rendered" =>
        \A i \in 1..Len(renderer.image) :
            IsHeader(renderer.image[i]) =>
                /\ renderer.image[i].col = 0
                /\ \A j \in 1..Len(renderer.image) :
                      j # i => renderer.image[j].row # renderer.image[i].row

\* The treatment a color of the text view stands for; neutral is the color
\* of the pending treatment (BLUE for a bracket, RESET for parentheses).
TextClass(color, neutral) ==
    CASE color = GREEN   -> "done"
      [] color = RED     -> "overdue"
      [] color = neutral -> "pending"
      [] OTHER           -> "unknown"

\* The treatment a color of the image view stands for.
ImageClass(color, neutral) ==
    CASE color = NORD_GREEN -> "done"
      [] color = NORD_RED   -> "overdue"
      [] color = neutral    -> "pending"
      [] OTHER              -> "unknown"

Visit(kind, label, class) == [kind |-> kind, label |-> label, class |-> class]

\* The hour brackets and tasks a colored text shows, in the order written:
\* a bracket is the piece "[" with its color before it and the hour after
\* it, a task the piece "(" with its color before it and the description
\* two pieces after it.
RECURSIVE text_visits(_, _)
text_visits(text, i) ==
    IF i > Len(text) THEN << >>
    ELSE IF text[i] = "["
    THEN <<Visit("slot", "[" \o text[i + 1] \o "]", TextClass(text[i - 1], BLUE))>>
         \o text_visits(text, i + 1)
    ELSE IF text[i] = "("
    THEN <<Visit("task", text[i + 2], TextClass(text[i - 1], RESET))>>
         \o text_visits(text, i + 1)
    ELSE text_visits(text, i + 1)

TextVisits(text) == text_visits(text, 1)

BracketLiterals == {"[" \o to_string(h) \o "]" : h \in 0..23}

\* The hour brackets and tasks an image shows, in the order drawn: a bracket
\* is a run "[h]", a task the run " (" with the description in the next run.
RECURSIVE image_visits(_, _)
image_visits(img, i) ==
    IF i > Len(img) THEN << >>
    ELSE IF img[i].literal \in BracketLiterals
    THEN <<Visit("slot", img[i].literal, ImageClass(img[i].color, NORD_BLUE))>>
         \o image_visits(img, i + 1)
    ELSE IF img[i].literal = " ("
    THEN <<Visit("task", img[i + 1].literal, ImageClass(img[i].color, NORD_WHITE))>>
         \o image_visits(img, i + 1)
    ELSE image_visits(img, i + 1)

ImageVisits(img) == image_visits(img, 1)

\* What a view of the Store has to go through: for every selected day with a
\* Schedule, every slot in ascending hour order, each followed by its tasks
\* in slot order; done is "every task completed" for a slot and the
\* completed flag for a task.
Item(kind, label, date, hour, done) ==
    [kind |-> kind, label |-> label, date |-> date, hour |-> hour, done |-> done]

ItemsOfTasks(tasklist, date, hour) ==
    [i \in 1..Len(tasklist) |->
        Item("task", tasklist[i].desc, date, hour, tasklist[i].completed)]

RECURSIVE ItemsOfSlots(_, _, _)
ItemsOfSlots(timeslots, times, date) ==
    IF times = << >> THEN << >>
    ELSE LET hour == Head(times)
         IN  <<Item("slot", "[" \o to_string(hour) \o "]", date, hour,
                    \A i \in 1..Len(timeslots[hour]) : timeslots[hour][i].completed)>>
             \o ItemsOfTasks(timeslots[hour], date, hour)
             \o ItemsOfSlots(timeslots, Tail(times), date)

RECURSIVE ItemsOfDays(_, _)
ItemsOfDays(k, days) ==
    IF days = << >> THEN << >>
    ELSE (IF Head(days) \in DOMAIN k
          THEN ItemsOfSlots(k[Head(days)], keys_ascending(DOMAIN k[Head(days)]), Head(days))
          ELSE << >>)
         \o ItemsOfDays(k, Tail(days))

\* The items of the command under way, and what it showed of them.
Items == ItemsOfDays(keeper, selected_days(selection, now))
Shown == IF rpc = "shown" THEN TextVisits(printed) ELSE ImageVisits(renderer.image)

\* The instant t is later than date at hour:59:59: on a later date, or on
\* that date a whole second or more past it, or in that very second by at
\* least a microsecond.
Late(date, hour, t) ==
    LET end == hour * 3600 + 59 * 60 + 59
    IN  \/ t.date >= date + 1
        \/ t.date = date /\ t.secs >= end + 1
        \/ t.date = date /\ t.secs = end /\ t.micros >= 1

Treatment(done, due) ==
    IF done THEN "done" ELSE IF due THEN "overdue" ELSE "pending"

\* C15: the text view styles a bracket by (every task of the slot completed,
\* slot past due) and each task's parentheses by (task completed, slot past
\* due): done when completed whatever past due is, overdue when not
\* completed and past due, pending otherwise.
C15_StyleTable ==
    rpc = "shown" =>
        /\ Len(TextVisits(printed)) = Len(Items)
        /\ \A i \in 1..Len(Items) :
              /\ TextVisits(printed)[i].kind = Items[i].kind
              /\ TextVisits(printed)[i].class =
                    Treatment(Items[i].done,
                              past_due(Items[i].date, Items[i].hour, now))

\* The text view shows a slot that is finished and past due, and an
\* unfinished task that is not.
C15_Witness ==
    /\ rpc = "shown"
    /\ \E i \in 1..Len(Items) :
          /\ Items[i].kind = "slot"
          /\ Items[i].done
          /\ past_due(Items[i].date, Items[i].hour, now)
    /\ \E i \in 1..Len(Items) :
          /\ Items[i].kind = "task"
          /\ ~Items[i].done
          /\ ~past_due(Items[i].date, Items[i].hour, now)

\* C16: for the same Store, selection and now, the image view shows the
\* same brackets and tasks as the text view, in the same order and each
\* with the same treatment.
C16_ViewsAgree ==
    rpc = "rendered" =>
        ImageVisits(renderer.image) = TextVisits(fmt(keeper, selection, now, "Color"))

\* An image with an unfinished bracket that is not past due and a finished
\* one.
C16_Witness ==
    /\ rpc = "rendered"
    /\ \E i \in 1..Len(Items) :
          /\ Items[i].kind = "slot"
          /\ ~Items[i].done
          /\ ImageVisits(renderer.image)[i].class = "pending"
    /\ \E i \in 1..Len(Items) :
          /\ Items[i].kind = "slot"
          /\ Items[i].done
          /\ ImageVisits(renderer.image)[i].class = "done"

\* C17: the text rendering of the next 0 days is empty, and that of the
\* next 1 day is the text rendering of today's date selected directly.
C17_ZeroAndOneDay ==
    rpc = "shown" =>
        /\ selection = ShowDays(0) => printed = << >>
        /\ selection = ShowDays(1) =>
              printed = fmt(keeper, ShowDate(now.date), now, "Color")

\* The next 1 day shown, today having a Schedule.
C17_Witness ==
    /\ rpc = "shown"
    /\ selection = ShowDays(1)
    /\ now.date \in DOMAIN keeper
    /\ printed # << >>

\* The single-day renderings of the given days with one empty line between
\* each two of them.
RECURSIVE DaysJoined(_, _, _)
DaysJoined(k, days, t) ==
    IF Len(days) = 1 THEN fmt_day(k, days[1], t, "Color")
    ELSE fmt_day(k, Head(days), t, "Color") \o <<"\n">> \o DaysJoined(k, Tail(days), t)

BlankLines(ls) == {i \in 1..Len(ls) : ls[i] = ""}

\* C18: the text rendering of the next N >= 1 days is the N single-day
\* renderings from today on in ascending date order, with exactly one blank
\* line between two consecutive days, none before the first day and none
\* after the last.
C18_BlankLineBetweenDays ==
    (rpc = "shown" /\ selection.kind = "Days" /\ selection.days >= 1) =>
        LET N  == selection.days
            ls == lines(printed)
        IN  /\ printed = DaysJoined(keeper, [i \in 1..N |-> now.date + i - 1], now)
            /\ Cardinality(BlankLines(ls)) = N - 1
            /\ ls[1] # ""
            /\ ls[Len(ls)] # ""

\* Two or more days shown, one of them with a Schedule.
C18_Witness ==
    /\ rpc = "shown"
    /\ selection.kind = "Days"
    /\ selection.days >= 2
    /\ \E i \in 1..selection.days : (now.date + i - 1) \in DOMAIN keeper
    /\ BlankLines(lines(printed)) # {}

\* The fraction s equals n / d.
IsFraction(s, n, d) == s[1] * d = n * s[2]

\* C20: the scale of the image renderer is min(881 / H, 1380 / W) on both
\* axes, H the number of lines of the plain text of the selection and
\* W = L / 1.9 for the length L of its longest line; 881 = 956 - 2*20 - 35
\* and 1380 = 1470 - 2*35 - 20.  As 1380 / W = 26220 / (10 * L), the height
\* term is the smaller one iff 881 * 10 * L <= 26220 * H.
C20_ScaleIsMin ==
    rpc \in {"constructed", "rendered"} =>
        LET H == Len(lines(displayed))
            L == longest(lines(displayed))
        IN  /\ effective_height = 881
            /\ effective_width = 1380
            /\ renderer.scale.x = renderer.scale.y
            /\ IF 881 * 10 * L <= 1380 * 19 * H
               THEN IsFraction(renderer.scale.x, 881, H)
               ELSE IsFraction(renderer.scale.x, 1380 * 19, 10 * L)

\* A renderer whose scale the width decides: few, long lines.
C20_Witness ==
    /\ rpc = "constructed"
    /\ 881 * 10 * longest(lines(displayed)) > 1380 * 19 * Len(lines(displayed))
    /\ file # EmptyMap

\* Every hour key of every Schedule of the Keeper is an hour of the day.
HoursValid(k) == \A d \in DOMAIN k : \A h \in DOMAIN k[d] : h \in 0..23

\* C19: every hour key of the persisted and of the loaded Keeper is in
\* [0, 23]; every add, mark or change the parser has accepted names hours in
\* that range only; a command line rejected for its hour, old hour or new
\* hour has built no Command and ends the process with the Keeper as
\* loaded, nothing ordered and nothing persisted.
C19_HourDomain ==
    /\ HoursValid(file)
    /\ HoursValid(keeper)
    /\ command.op \in {"add", "mark"} => command.hour \in 0..23
    /\ command.op = "change" =>
          (command.old_hour \in 0..23 /\ command.new_hour \in 0..23)
    /\ err \in {"hour", "new-hour"} =>
          /\ pc = "exited"
          /\ command.op = "none"
          /\ keeper = file
          /\ orders = 0
          /\ commits = 0

\* A command line naming the hour 24 has been rejected, the Store holding
\* tasks from earlier commands.
C19_Witness ==
    /\ err = "hour"
    /\ pc = "exited"
    /\ file # EmptyMap

\* No date maps to a Schedule without slots and no slot is an empty list.
NoEmptyContainers(k) ==
    \A d \in DOMAIN k :
        /\ DOMAIN k[d] # {}
        /\ \A h \in DOMAIN k[d] : k[d][h] # << >>

\* C21: neither the persisted Keeper nor the Keeper a process holds in
\* memory, after add, mark, a successful or failing move, and order, has a
\* slot with an empty task list or a date whose Schedule has no slot.
C21_NoEmptyContainers ==
    /\ NoEmptyContainers(file)
    /\ NoEmptyContainers(keeper)

\* A move has taken the only task of the only slot of its date to another
\* hour: the date is left with the new slot alone.
C21_Witness ==
    /\ pc = "mutated"
    /\ MoveSourceExists
    /\ DOMAIN file[command.date] = {command.old_hour}
    /\ Len(file[command.date][command.old_hour]) = 1
    /\ command.new_hour # command.old_hour
    /\ DOMAIN keeper[command.date] = {command.new_hour}

\* How many tasks stored under the date d of k equal t in flag and
\* description.
CountUnder(k, d, t) ==
    Cardinality({p \in TaskPositions(k) : p[1] = d /\ k[p[1]][p[2]][p[3]] = t})

\* How many tasks of k have the description x and are completed.
CompletedCount(k, x) ==
    Cardinality({p \in TaskPositions(k) :
                    k[p[1]][p[2]][p[3]] = [completed |-> TRUE, desc |-> x]})

\* The slot (d, h) of k, empty when absent.
SlotOf(k, d, h) ==
    IF d \in DOMAIN k /\ h \in DOMAIN k[d] THEN k[d][h] ELSE << >>

\* The list s without its i-th element (i from 1).
Without(s, i) == [j \in 1..(Len(s) - 1) |-> IF j < i THEN s[j] ELSE s[j + 1]]

\* The list s without its last element.
Front(s) == [j \in 1..(Len(s) - 1) |-> s[j]]

MarkProgress(pre, post, d, h) ==
    LET s    == SlotOf(pre, d, h)
        inc  == SelectSeq(s, NotDone)
        done == SelectSeq(s, IsDone)
    IN  IF inc = << >> THEN post = pre
        ELSE /\ DOMAIN post = DOMAIN pre
             /\ DOMAIN post[d] = DOMAIN pre[d]
             /\ post[d][h] = Tail(inc) \o <<[Head(inc) EXCEPT !.completed = TRUE]>> \o done
             /\ \A e \in DOMAIN pre : \A g \in DOMAIN pre[e] :
                   <<e, g>> # <<d, h>> => post[e][g] = pre[e][g]

\* C23 (as stated): every invocation of keeper-todo's `mark date hour`
\* (index 0) that has ended, by returning from main, leaves the persisted
\* Keeper one task further: the first incomplete task of the loaded slot
\* completed if there was one, no change if the slot was all done.
C23_MarkMakesProgress ==
    [][ (/\ bin = "keeper-todo"
         /\ pc' \in {"done", "failed"}
         /\ command'.op = "mark"
         /\ command'.index = 0)
        => MarkProgress(file, file', command'.date, command'.hour) ]_vars

====
